---- MODULE Spec2Model ----
(***************************************************************************)
(* A model of helpers.py (ragbot): the document tagger and file aggregator *)
(* (process_file, load_files), the token counter (count_tokens), the       *)
(* number formatter (human_format) and the chat dispatcher (chat).         *)
(*                                                                         *)
(* Text is modelled as a sequence of chunks.  A chunk is a string that     *)
(* stands for a run of characters ("<", "document:", a path, a uuid).  No  *)
(* chunk other than "<" contains the character '<' and no chunk other than *)
(* "document:" contains any part of that word, so the text '<document:'    *)
(* occurs in a chunk sequence exactly where "<" is followed by             *)
(* "document:".                                                            *)
(***************************************************************************)
EXTENDS Integers, Sequences, FiniteSets, TLC

VARIABLES
    pc,                   \* "idle" before the call, "done" after it
    fs,                   \* the file system: bodies, permissions, listings
    file_paths,           \* argument of load_files / count_tokens
    file_type,            \* argument of load_files
    uuids,                \* the values uuid.uuid4() returned during the call
    reads,                \* the paths handed to open(), in order
    num,                  \* argument of human_format
    chat_args,            \* the arguments of chat
    llm_response,         \* what completion() returned
    messages,             \* the message list handed to completion()
    ret                   \* the outcome of the call: a value or a raised error

vars == <<pc, fs, file_paths, file_type, uuids, reads, num, chat_args,
          llm_response, messages, ret>>

(***************************************************************************)
(* Bounds of the model.                                                    *)
(***************************************************************************)
MaxPaths == 3
NumSeeds == 2
MaxPad == 12
MaxLead == 9999
MaxItems == 2

(***************************************************************************)
(* Generic helpers.                                                        *)
(***************************************************************************)
\* Python's None.
None == <<"None">>

\* The value of a variable the call at hand does not use.
Unused == [unused |-> TRUE]

Range(s) == {s[i] : i \in 1..Len(s)}

SeqsUpTo(S, n) == UNION {[1..k -> S] : k \in 0..n}

\* A variant of str.join that leaves the separator out.
RECURSIVE JoinStrNoSep(_, _)
JoinStrNoSep(sep, list) ==
    IF list = <<>> THEN <<>> ELSE Head(list) \o JoinStrNoSep(sep, Tail(list))

\* str.join: the items with sep between each two neighbours.
RECURSIVE JoinStr(_, _)
JoinStr(sep, list) ==
    IF list = <<>> THEN <<>>
    ELSE IF Len(list) = 1 THEN Head(list)
    ELSE Head(list) \o sep \o JoinStr(sep, Tail(list))

(***************************************************************************)
(* The file system.  Its shape is fixed; bodies, permissions and the order *)
(* in which a directory lists its entries vary.                            *)
(*   a.txt            regular file                                         *)
(*   d1/              directory: x.txt, y.txt, .env (files), sub/ (dir)    *)
(*   d1/sub/z.txt     regular file in a subdirectory                       *)
(*   d[1]/            directory: w.txt (file)                              *)
(*   sock             a socket (neither regular file nor directory)        *)
(*   nope             does not exist                                       *)
(***************************************************************************)
RegularFiles == {"a.txt", "d1/x.txt", "d1/y.txt", "d1/.env", "d1/sub/z.txt",
                 "d[1]/w.txt"}
Directories == {"d1", "d1/sub", "d[1]"}
Entries == [d \in Directories |->
              CASE d = "d1" -> {"x.txt", "y.txt", ".env", "sub"}
                [] d = "d1/sub" -> {"z.txt"}
                [] d = "d[1]" -> {"w.txt"}]
InputPaths == {"a.txt", "d1", "d[1]", "d1/x.txt", "nope", "sock"}

\* The text '<document:'.
Marker == <<"<", "document:">>
Bodies == {<<>>, <<"hello", "\n">>, <<"<", "document:", "x", "\n">>}
Listings == {<<"x.txt", "y.txt", ".env", "sub">>, <<"sub", "y.txt", ".env", "x.txt">>}

FileSystems ==
    {[body |-> [f \in RegularFiles |->
                  CASE f = "a.txt" -> ba
                    [] f = "d1/x.txt" -> <<"ex">>
                    [] f = "d1/y.txt" -> by
                    [] OTHER -> <<"other", "\n">>],
      unreadable |-> u,
      listing |-> [d \in Directories |->
                     CASE d = "d1" -> l
                       [] d = "d1/sub" -> <<"z.txt">>
                       [] d = "d[1]" -> <<"w.txt">>]] :
        ba \in Bodies, by \in {<<>>, <<"<", "document:", "x", "\n">>},
        u \in {{}, {"a.txt"}, {"d1/x.txt"}, {"d1/y.txt"}},
        l \in Listings}

isfile(path) == path \in RegularFiles        \* os.path.isfile
isdir(path) == path \in Directories          \* os.path.isdir
join(path, name) == path \o "/" \o name      \* os.path.join

\* open(path, "r") succeeds: a readable regular file. A missing path, a
\* directory, a socket and a file without read permission all raise OSError.
CanOpen(f, path) == isfile(path) /\ path \notin f.unreadable

\* fnmatch, for the names of this file system: "d[1]" is a pattern with a
\* character class and matches the name "d1", not the name "d[1]".
has_magic(path) == path \in {"d[1]"}
fnmatch(name, pattern) ==
    IF pattern = "d[1]" THEN name = "d1" ELSE name = pattern

\* A name glob's "*" does not match: one that begins with a dot.
ishidden(name) == name \in {".env"}

\* The working directory's own listing, which glob reads to expand a dirname
\* that has magic.
RootListing == <<"a.txt", "d1", "d[1]", "sock">>

RECURSIVE Flatten(_)
Flatten(lists) ==
    IF lists = <<>> THEN <<>> ELSE Head(lists) \o Flatten(Tail(lists))

\* The directories the dirname part of the pattern stands for: the path
\* itself when it has no magic, else the directories whose names match it.
glob_dirs(path) ==
    IF has_magic(path)
    THEN SelectSeq(RootListing, LAMBDA e : isdir(e) /\ fnmatch(e, path))
    ELSE <<path>>

\* The entries of directory d that "*" matches, in listing order, each joined
\* to d.
glob_in(f, d) ==
    LET shown == SelectSeq(f.listing[d], LAMBDA n : ~ishidden(n))
    IN  [i \in 1..Len(shown) |-> join(d, shown[i])]

\* glob.glob(os.path.join(path, "*")) for a path that is a directory.
glob_star(f, path) ==
    LET dirs == glob_dirs(path)
    IN  Flatten([i \in 1..Len(dirs) |-> glob_in(f, dirs[i])])

(***************************************************************************)
(* uuid.uuid4(): the model takes the library at its word that the values   *)
(* drawn during one call are distinct.  A stream is one such draw.         *)
(***************************************************************************)
MaxDocs == MaxPaths * Cardinality({n \in Entries["d1"] : isfile(join("d1", n)) /\ ~ishidden(n)})
uuid4(seed) == [k \in 1..MaxDocs |-> "u" \o ToString(((seed + k) % MaxDocs) + 1)]

(***************************************************************************)
(* process_file: the tagged text of one file.                              *)
(***************************************************************************)
\* A variant of process_file whose closing tag lacks its "/".
process_file_unclosed(f, filepath, ftype, unique_id) ==
    IF ~CanOpen(f, filepath) THEN [status |-> "raised"]
    ELSE [status |-> "ok",
          full_content |-> <<"<", "document:", unique_id, " path=\"", filepath,
                             "\" type=\"", ftype, "\">", "\n">>
                           \o f.body[filepath]
                           \o <<"<", "document:", unique_id, ">", "\n">>,
          filename |-> filepath]

process_file(f, filepath, ftype, unique_id) ==
    IF ~CanOpen(f, filepath) THEN [status |-> "raised"]
    ELSE [status |-> "ok",
          full_content |-> <<"<", "document:", unique_id, " path=\"", filepath,
                             "\" type=\"", ftype, "\">", "\n">>
                           \o f.body[filepath]
                           \o <<"<", "/", "document:", unique_id, ">", "\n">>,
          filename |-> filepath]

(***************************************************************************)
(* load_files.  acc holds the locals of the call: files_content,           *)
(* files_list, and what the call has drawn and opened so far.              *)
(***************************************************************************)
EmptyAcc == [status |-> "ok", files_content |-> <<>>, files_list |-> <<>>,
             drawn |-> 0, opened |-> <<>>]

\* A variant of Tag that leaves out a file already in files_list.
Tag_dedup(f, filepath, ftype, rnd, acc) ==
    IF filepath \in Range(acc.files_list) THEN acc
    ELSE LET r == process_file(f, filepath, ftype, rnd[acc.drawn + 1])
         IN  IF r.status = "raised"
             THEN [acc EXCEPT !.status = "raised", !.drawn = @ + 1,
                              !.opened = Append(@, filepath)]
             ELSE [acc EXCEPT !.files_content = Append(@, r.full_content),
                              !.files_list = Append(@, r.filename),
                              !.drawn = @ + 1,
                              !.opened = Append(@, filepath)]

\* One call of process_file and the two appends that follow it.
Tag(f, filepath, ftype, rnd, acc) ==
    LET r == process_file(f, filepath, ftype, rnd[acc.drawn + 1])
    IN  IF r.status = "raised"
        THEN [acc EXCEPT !.status = "raised", !.drawn = @ + 1,
                         !.opened = Append(@, filepath)]
        ELSE [acc EXCEPT !.files_content = Append(@, r.full_content),
                         !.files_list = Append(@, r.filename),
                         !.drawn = @ + 1,
                         !.opened = Append(@, filepath)]

\* The inner loop: for filepath in glob.glob(...): if os.path.isfile(filepath)
RECURSIVE GlobLoop(_, _, _, _, _)
GlobLoop(f, found, ftype, rnd, acc) ==
    IF found = <<>> \/ acc.status = "raised" THEN acc
    ELSE GlobLoop(f, Tail(found), ftype, rnd,
                  IF isfile(Head(found)) THEN Tag(f, Head(found), ftype, rnd, acc)
                  ELSE acc)

\* A variant of PathStep that fails on a path that is neither file nor
\* directory.
PathStep_strict(f, path, ftype, rnd, acc) ==
    IF isfile(path) THEN Tag(f, path, ftype, rnd, acc)
    ELSE IF isdir(path) THEN GlobLoop(f, glob_star(f, path), ftype, rnd, acc)
    ELSE [acc EXCEPT !.status = "raised"]

\* The body of the outer loop, for one path of file_paths.
PathStep(f, path, ftype, rnd, acc) ==
    IF isfile(path) THEN Tag(f, path, ftype, rnd, acc)
    ELSE IF isdir(path) THEN GlobLoop(f, glob_star(f, path), ftype, rnd, acc)
    ELSE acc

\* The outer loop: for path in file_paths
RECURSIVE PathLoop(_, _, _, _, _)
PathLoop(f, paths, ftype, rnd, acc) ==
    IF paths = <<>> \/ acc.status = "raised" THEN acc
    ELSE PathLoop(f, Tail(paths), ftype, rnd,
                  PathStep(f, Head(paths), ftype, rnd, acc))

\* What the caller gets: the value, or the error and no value.
Returned(acc, value) ==
    [status |-> acc.status,
     value |-> IF acc.status = "ok" THEN value ELSE None,
     drawn |-> acc.drawn, opened |-> acc.opened]

\* A variant of load_files that joins with the empty string.
load_files_nosep(f, paths, ftype, rnd) ==
    LET acc == PathLoop(f, paths, ftype, rnd, EmptyAcc)
    IN  Returned(acc, [content |-> JoinStrNoSep(<<"\n">>, acc.files_content),
                       files |-> acc.files_list,
                       files_content |-> acc.files_content])

load_files(f, paths, ftype, rnd) ==
    LET acc == PathLoop(f, paths, ftype, rnd, EmptyAcc)
    IN  Returned(acc, [content |-> JoinStr(<<"\n">>, acc.files_content),
                       files |-> acc.files_list,
                       files_content |-> acc.files_content])

(***************************************************************************)
(* count_tokens.  The tokenizer is a library: the model takes one token    *)
(* per chunk of the text.                                                  *)
(***************************************************************************)
encode(content) == content

\* A variant of CountStep that carries on past a file it cannot open.
CountStep_skip(f, file_path, acc) ==
    IF ~CanOpen(f, file_path)
    THEN [acc EXCEPT !.opened = Append(@, file_path)]
    ELSE [acc EXCEPT !.total_tokens = @ + Len(encode(f.body[file_path])),
                     !.opened = Append(@, file_path)]

\* The body of the loop, for one path: open, read, encode, add.
CountStep(f, file_path, acc) ==
    IF ~CanOpen(f, file_path)
    THEN [acc EXCEPT !.status = "raised", !.opened = Append(@, file_path)]
    ELSE [acc EXCEPT !.total_tokens = @ + Len(encode(f.body[file_path])),
                     !.opened = Append(@, file_path)]

RECURSIVE CountLoop(_, _, _)
CountLoop(f, paths, acc) ==
    IF paths = <<>> \/ acc.status = "raised" THEN acc
    ELSE CountLoop(f, Tail(paths), CountStep(f, Head(paths), acc))

count_tokens(f, paths) ==
    LET acc == CountLoop(f, paths,
                         [status |-> "ok", total_tokens |-> 0, drawn |-> 0,
                          opened |-> <<>>])
    IN  Returned(acc, acc.total_tokens)

(***************************************************************************)
(* human_format.  A number is its sign and its decimal digits, the most    *)
(* significant first.  A float is a pair (m, e) standing for m * 10^e:     *)
(* every value the function computes for an integer below 2^53 is either   *)
(* an integer float holds exactly or the correctly rounded quotient of one *)
(* by 1000.0, whose '{:f}' text is that of the exact quotient.             *)
(***************************************************************************)
RECURSIVE DigitsOf(_)
DigitsOf(n) == IF n < 10 THEN <<n>> ELSE Append(DigitsOf(n \div 10), n % 10)

RECURSIVE ValueOf(_)
ValueOf(ds) == IF ds = <<>> THEN 0 ELSE 10 * ValueOf(SubSeq(ds, 1, Len(ds) - 1)) + ds[Len(ds)]

RECURSIVE Pow10(_)
Pow10(k) == IF k = 0 THEN 1 ELSE 10 * Pow10(k - 1)

DigitChar == <<"0", "1", "2", "3", "4", "5", "6", "7", "8", "9">>
Chars(ds) == [i \in 1..Len(ds) |-> DigitChar[ds[i] + 1]]

SigFigs == 3            \* '{:.3g}'
FDecimals == 6          \* '{:f}'
Kilo == 3                \* 1000 is 10^Kilo
Suffixes == <<"", "k", "M", "B", "T">>

\* float('{:.3g}'.format(num)): the digits rounded to three significant
\* figures, a tie going to the even neighbour.
round_3g(ds) ==
    IF Len(ds) <= SigFigs THEN [m |-> ValueOf(ds), e |-> 0]
    ELSE LET m0 == ValueOf(SubSeq(ds, 1, SigFigs))
             next == ds[SigFigs + 1]
             sticky == \E i \in (SigFigs + 2)..Len(ds) : ds[i] # 0
             up == next > 5 \/ (next = 5 /\ (sticky \/ m0 % 2 = 1))
             m == IF up THEN m0 + 1 ELSE m0
             e == Len(ds) - SigFigs
         IN  IF m = Pow10(SigFigs) THEN [m |-> m \div 10, e |-> e + 1]
             ELSE [m |-> m, e |-> e]

\* abs(num) >= 1000
AtLeastThousand(x) == x.m # 0 /\ Len(DigitsOf(x.m)) + x.e > Kilo

\* while abs(num) >= 1000: magnitude += 1; num /= 1000.0
RECURSIVE scale(_, _)
scale(x, magnitude) ==
    IF AtLeastThousand(x)
    THEN scale([m |-> x.m, e |-> x.e - Kilo], magnitude + 1)
    ELSE [num |-> x, magnitude |-> magnitude]

\* '{:f}'.format(num) for 0 <= num < 1000: the integer part, a point, six
\* decimals.
format_f(x) ==
    LET whole == IF x.e >= 0 THEN x.m * Pow10(x.e) ELSE x.m \div Pow10(-x.e)
        part == IF x.e >= 0 THEN 0 ELSE x.m % Pow10(-x.e)
        shown == IF x.e >= 0 THEN <<>> ELSE DigitsOf(part)
        lead0 == IF x.e >= 0 THEN 0 ELSE (-x.e) - Len(shown)
        frac == [i \in 1..lead0 |-> 0] \o shown
    IN  Chars(DigitsOf(whole)) \o <<".">>
        \o Chars(frac \o [i \in 1..(FDecimals - Len(frac)) |-> 0])

\* str.rstrip(c)
RECURSIVE rstrip(_, _)
rstrip(text, c) ==
    IF text # <<>> /\ text[Len(text)] = c
    THEN rstrip(SubSeq(text, 1, Len(text) - 1), c)
    ELSE text

\* ['', 'k', 'M', 'B', 'T'][magnitude]
Index(table, magnitude) ==
    IF magnitude + 1 > Len(table) THEN [status |-> "raised"]
    ELSE [status |-> "ok", item |-> table[magnitude + 1]]

human_format(n) ==
    LET s == scale(round_3g(n.digits), 0)
        sign == IF n.neg /\ s.num.m # 0 THEN <<"-">> ELSE <<>>
        text == rstrip(rstrip(sign \o format_f(s.num), "0"), ".")
        suffix == Index(Suffixes, s.magnitude)
    IN  IF suffix.status = "raised"
        THEN [status |-> "raised", value |-> None, magnitude |-> s.magnitude]
        ELSE [status |-> "ok",
              value |-> text \o (IF suffix.item = "" THEN <<>> ELSE <<suffix.item>>),
              magnitude |-> s.magnitude]

\* The integer lead * 10^pad + tail, or its negative.
Number(sg, lead, pad, tail) ==
    [neg |-> sg,
     digits |-> DigitsOf(lead) \o [i \in 1..pad |-> IF i = pad THEN tail ELSE 0]]

(***************************************************************************)
(* chat.  A dict is a function from its keys; the empty dict is <<>>.      *)
(***************************************************************************)
EmptyDict == <<>>

\* dict.get(key, default)
get(d, key, default) == IF key \in DOMAIN d THEN d[key] ELSE default

\* A variant of build_messages that puts "\n" between the two joined blocks.
build_messages_sep(a) ==
    IF a.supports_system_role
    THEN <<[role |-> "system",
            content |-> JoinStr(<<"\n">>, a.custom_instructions) \o <<"\n">>
                        \o JoinStr(<<"\n">>, a.curated_datasets)],
           [role |-> "user", content |-> a.prompt]>>
    ELSE <<[role |-> "user", content |-> JoinStr(<<"\n">>, a.custom_instructions)],
           [role |-> "user", content |-> JoinStr(<<"\n">>, a.curated_datasets)],
           [role |-> "user", content |-> a.prompt]>>

\* The message list chat builds before it calls completion.
build_messages(a) ==
    IF a.supports_system_role
    THEN <<[role |-> "system",
            content |-> JoinStr(<<"\n">>, a.custom_instructions)
                        \o JoinStr(<<"\n">>, a.curated_datasets)],
           [role |-> "user", content |-> a.prompt]>>
    ELSE <<[role |-> "user", content |-> JoinStr(<<"\n">>, a.custom_instructions)],
           [role |-> "user", content |-> JoinStr(<<"\n">>, a.curated_datasets)],
           [role |-> "user", content |-> a.prompt]>>

\* llm_response.get('choices', [{}])[0].get('message', {}).get('content')
extract(response) ==
    LET choices == get(response, "choices", <<EmptyDict>>)
    IN  IF Len(choices) = 0 THEN [status |-> "raised", value |-> None]
        ELSE [status |-> "ok",
              value |-> get(get(choices[1], "message", EmptyDict), "content", None)]

\* What completion() may return: the expected shape, and the shapes that lack
\* a part of it.
Replies == {<<"pong">>, <<>>}
Responses ==
    {[choices |-> <<[message |-> [content |-> c, role |-> "assistant"]]>>] : c \in Replies}
    \cup {[choices |-> <<[message |-> [content |-> c, role |-> "assistant"]],
                         [message |-> [content |-> <<"second">>, role |-> "assistant"]]>>] :
            c \in Replies}
    \cup {[object |-> "chat.completion"],
          [choices |-> <<>>],
          [choices |-> <<[index |-> 0]>>],
          [choices |-> <<[message |-> [role |-> "assistant"]]>>],
          [choices |-> <<[message |-> [role |-> "assistant", content |-> None]]>>]}

Instructions == {<<"be brief">>, <<"cite", "\n">>}
Datasets == {<<"facts">>, <<>>}
Prompts == {<<"hi">>, <<"hi", "\n", "there">>}

ChatArgs ==
    [prompt : Prompts,
     curated_datasets : SeqsUpTo(Datasets, MaxItems),
     custom_instructions : SeqsUpTo(Instructions, MaxItems),
     model : {"gpt"}, max_tokens : {1000}, request_timeout : {15},
     stream : BOOLEAN, history : {None, <<"earlier">>},
     engine : {"openai", "anthropic"}, interactive : BOOLEAN,
     new_session : BOOLEAN, supports_system_role : BOOLEAN]

(***************************************************************************)
(* The calls.                                                              *)
(***************************************************************************)
Idle ==
    /\ uuids = <<>> /\ reads = <<>> /\ messages = Unused /\ llm_response = Unused
    /\ ret = Unused

NoFiles == fs = Unused /\ file_paths = <<>> /\ file_type = ""
NoNum == num = Unused
NoChat == chat_args = Unused

InitFiles ==
    /\ pc = "idle"
    /\ fs \in FileSystems
    /\ file_paths \in SeqsUpTo(InputPaths, MaxPaths)
    /\ file_type \in {"t"}
    /\ NoNum /\ NoChat /\ Idle

LoadFiles ==
    /\ pc = "idle" /\ fs # Unused
    /\ \E seed \in 1..NumSeeds :
         LET r == load_files(fs, file_paths, file_type, uuid4(seed))
         IN  /\ ret' = [op |-> "load_files", status |-> r.status, value |-> r.value]
             /\ uuids' = SubSeq(uuid4(seed), 1, r.drawn)
             /\ reads' = r.opened
    /\ pc' = "done"
    /\ UNCHANGED <<fs, file_paths, file_type, num, chat_args, llm_response, messages>>

CountTokens ==
    /\ pc = "idle" /\ fs # Unused
    /\ LET r == count_tokens(fs, file_paths)
       IN  /\ ret' = [op |-> "count_tokens", status |-> r.status, value |-> r.value]
           /\ reads' = r.opened
    /\ pc' = "done"
    /\ UNCHANGED <<fs, file_paths, file_type, uuids, num, chat_args,
                   llm_response, messages>>

NextFiles == LoadFiles \/ CountTokens

SpecFiles == InitFiles /\ [][NextFiles]_vars

InitFormat ==
    /\ pc = "idle"
    /\ \E lead \in 0..MaxLead, pad \in 0..MaxPad, tail \in {0, 1}, sg \in BOOLEAN :
         /\ lead = 0 => pad = 0 /\ ~sg
         /\ pad = 0 => tail = 0
         /\ sg => pad = 0
         /\ num = Number(sg, lead, pad, tail)
    /\ NoFiles /\ NoChat /\ Idle

HumanFormat ==
    /\ pc = "idle" /\ num # Unused
    /\ LET r == human_format(num)
       IN  ret' = [op |-> "human_format", status |-> r.status, value |-> r.value,
                   magnitude |-> r.magnitude]
    /\ pc' = "done"
    /\ UNCHANGED <<fs, file_paths, file_type, uuids, reads, num, chat_args,
                   llm_response, messages>>

NextFormat == HumanFormat

SpecFormat == InitFormat /\ [][NextFormat]_vars

InitChat ==
    /\ pc = "idle"
    /\ chat_args \in ChatArgs
    /\ NoFiles /\ NoNum /\ Idle

Chat ==
    /\ pc = "idle" /\ chat_args # Unused
    /\ messages' = build_messages(chat_args)
    /\ \E response \in Responses :
         /\ llm_response' = response
         /\ ret' = [op |-> "chat", status |-> extract(response).status,
                    value |-> extract(response).value]
    /\ pc' = "done"
    /\ UNCHANGED <<fs, file_paths, file_type, uuids, reads, num, chat_args>>

NextChat == Chat

SpecChat == InitChat /\ [][NextChat]_vars

(***************************************************************************)
(* Vocabulary of the claims about load_files and count_tokens.             *)
(***************************************************************************)
LoadDone == pc = "done" /\ ret.op = "load_files"
LoadOk == LoadDone /\ ret.status = "ok"
CountDone == pc = "done" /\ ret.op = "count_tokens"

\* The number of places where the text '<document:' begins.
Openings(text) ==
    Cardinality({i \in 1..(Len(text) - 1) : SubSeq(text, i, i + 1) = Marker})

Occurrences(list, x) == Cardinality({i \in 1..Len(list) : list[i] = x})

\* What one input path resolves to: itself, the regular files glob finds in
\* it, or nothing.
Expand(p) ==
    IF isfile(p) THEN <<p>>
    ELSE IF isdir(p) THEN SelectSeq(glob_star(fs, p), isfile)
    ELSE <<>>

Resolved(paths) == Flatten([i \in 1..Len(paths) |-> Expand(paths[i])])

Skipped(p) == ~isfile(p) /\ ~isdir(p)

Unreadable(p) == ~CanOpen(fs, p)

\* The first index of list whose path cannot be opened, or 0.
FirstUnreadable(list) ==
    IF \E i \in 1..Len(list) : Unreadable(list[i])
    THEN CHOOSE i \in 1..Len(list) :
            Unreadable(list[i]) /\ \A j \in 1..(i - 1) : ~Unreadable(list[j])
    ELSE 0

TaggedText(id, path, type, body) ==
    <<"<", "document:", id, " path=\"", path, "\" type=\"", type, "\">", "\n">>
    \o body \o <<"<", "/", "document:", id, ">", "\n">>

\* The documents 1..k of the call, each after the other with one "\n" between.
RECURSIVE DocumentsUpTo(_)
DocumentsUpTo(k) ==
    LET doc == TaggedText(uuids[k], ret.value.files[k], file_type,
                          fs.body[ret.value.files[k]])
    IN  IF k = 0 THEN <<>>
        ELSE IF k = 1 THEN doc
        ELSE DocumentsUpTo(k - 1) \o <<"\n">> \o doc

\* The occurrences of '<document:' inside the bodies of the listed files.
RECURSIVE OpeningsInBodies(_)
OpeningsInBodies(files) ==
    IF files = <<>> THEN 0
    ELSE Openings(fs.body[Head(files)]) + OpeningsInBodies(Tail(files))

(***************************************************************************)
(* C1 as stated: the length of files equals the number of '<document:'     *)
(* opening tags that occur in content, whatever the file bodies hold.      *)
(***************************************************************************)
C1_FilesMatchOpeningTags ==
    LoadOk => Len(ret.value.files) = Openings(ret.value.content)

(***************************************************************************)
(* C1 amended: the number of '<document:' occurrences in content is the    *)
(* length of files plus the occurrences inside the bodies that were        *)
(* inserted; the two are equal when no inserted body holds that text.      *)
(***************************************************************************)
C1_OpeningTagsCountFilesAndBodies ==
    LoadOk =>
      LET files == ret.value.files
          inBodies == OpeningsInBodies(files)
      IN  /\ Openings(ret.value.content) = Len(files) + inBodies
          /\ inBodies = 0 => Len(files) = Openings(ret.value.content)

C1_Witness ==
    /\ LoadOk
    /\ Len(ret.value.files) >= 2
    /\ \E i \in 1..Len(ret.value.files) : Openings(fs.body[ret.value.files[i]]) > 0
    /\ \E i \in 1..Len(ret.value.files) : Openings(fs.body[ret.value.files[i]]) = 0

(***************************************************************************)
(* C2: files is the resolved file paths in encounter order (the input      *)
(* list's order, the listing's order inside a directory); content is the   *)
(* tagged texts of files[1], files[2], ... in that order with exactly one  *)
(* "\n" between neighbours, each tagged text being the opening tag, "\n",  *)
(* the raw body, the closing tag with the same id, "\n".  For the single   *)
(* file a.txt with body 'hello\n' that is one document and files =         *)
(* <<"a.txt">>.                                                            *)
(***************************************************************************)
C2_OrderedFilesAndJoinedDocuments ==
    LoadOk =>
      /\ ret.value.files = Resolved(file_paths)
      /\ Len(uuids) = Len(ret.value.files)
      /\ ret.value.content = DocumentsUpTo(Len(ret.value.files))
      /\ (file_paths = <<"a.txt">> /\ fs.body["a.txt"] = <<"hello", "\n">>) =>
           /\ ret.value.files = <<"a.txt">>
           /\ ret.value.content =
                <<"<", "document:", uuids[1], " path=\"", "a.txt", "\" type=\"",
                  "t", "\">", "\n", "hello", "\n",
                  "<", "/", "document:", uuids[1], ">", "\n">>

C2_Witness ==
    /\ LoadOk
    /\ file_paths = <<"d1", "a.txt", "d1/x.txt">>
    /\ fs.listing["d1"] = <<"sub", "y.txt", ".env", "x.txt">>
    /\ ret.value.files = <<"d1/y.txt", "d1/x.txt", "a.txt", "d1/x.txt">>

(***************************************************************************)
(* C3: a path that names neither a regular file nor a directory is         *)
(* skipped: it raises no error, adds no entry to files and no document to  *)
(* content, and the paths before and after it are processed exactly as if  *)
(* it were absent from the list.                                           *)
(***************************************************************************)
C3_SkippedPathIsAsIfAbsent ==
    LoadDone =>
      LET kept == SelectSeq(file_paths, LAMBDA p : ~Skipped(p))
          rnd == uuids \o [k \in 1..MaxDocs |-> "unused"]
          r == load_files(fs, kept, file_type, rnd)
      IN  /\ ret.status = r.status /\ ret.value = r.value /\ reads = r.opened
          /\ (\A q \in Range(Resolved(kept)) : CanOpen(fs, q)) => ret.status = "ok"
          /\ ret.status = "ok" =>
               /\ \A p \in Range(file_paths) : Skipped(p) => p \notin Range(ret.value.files)
               /\ Len(ret.value.files_content) = Len(Resolved(kept))

C3_Witness ==
    /\ LoadOk
    /\ Len(file_paths) = 3
    /\ isfile(file_paths[1]) /\ Skipped(file_paths[2]) /\ isdir(file_paths[3])
    /\ Len(ret.value.files) = 3

(***************************************************************************)
(* C4 as stated: a path that names a directory yields exactly one files    *)
(* entry (and document) for each regular file that is an immediate child   *)
(* of it, whatever the child's name, and none for files in subdirectories; *)
(* a directory with two regular files yields exactly two.                  *)
(***************************************************************************)
C4_OneDocumentPerRegularChild ==
    LoadOk =>
      LET Children(d) == {join(d, n) : n \in {m \in Entries[d] : isfile(join(d, m))}}
          Due(p, q) == IF isfile(p) THEN (IF p = q THEN 1 ELSE 0)
                       ELSE IF isdir(p) /\ q \in Children(p) THEN 1 ELSE 0
          DueAll(q) == Cardinality({i \in 1..Len(file_paths) : Due(file_paths[i], q) = 1})
      IN  /\ \A q \in RegularFiles : Occurrences(ret.value.files, q) = DueAll(q)
          /\ Len(ret.value.files_content) = Len(ret.value.files)

(***************************************************************************)
(* C7: a file read failure aborts the whole call with an error and no      *)
(* partial result.  count_tokens returns no count if any path of its list  *)
(* cannot be opened, load_files returns neither content nor files if any   *)
(* resolved file cannot be opened, even when earlier files were read; each *)
(* path is opened once, in order, and none after the one that failed.      *)
(* count_tokens of the empty list is 0.                                    *)
(***************************************************************************)
C7_ReadFailureAbortsTheCall ==
    /\ CountDone =>
         LET bad == FirstUnreadable(file_paths)
         IN  /\ bad > 0 => /\ ret.status = "raised" /\ ret.value = None
                           /\ reads = SubSeq(file_paths, 1, bad)
             /\ bad = 0 => ret.status = "ok" /\ reads = file_paths
             /\ file_paths = <<>> => ret.status = "ok" /\ ret.value = 0
    /\ LoadDone =>
         LET res == Resolved(file_paths)
             bad == FirstUnreadable(res)
         IN  /\ bad > 0 => /\ ret.status = "raised" /\ ret.value = None
                           /\ reads = SubSeq(res, 1, bad)
             /\ bad = 0 => ret.status = "ok" /\ reads = res

C7_Witness ==
    /\ CountDone
    /\ ret.status = "raised"
    /\ Len(reads) = 2 /\ Len(file_paths) = 3
    /\ CanOpen(fs, reads[1]) /\ isfile(reads[2])

(***************************************************************************)
(* C10: load_files does not deduplicate.  A file reached more than once in *)
(* one call (listed twice, or listed and also found through its listed     *)
(* directory) has one files entry and one document per occurrence, and the *)
(* documents of one call all carry pairwise distinct identifiers.          *)
(***************************************************************************)
C10_NoDeduplicationDistinctIds ==
    LoadOk =>
      LET files == ret.value.files
          docs == ret.value.files_content
          Reached(q) == Cardinality(
              {<<i, j>> \in (1..Len(file_paths)) \X (1..MaxDocs) :
                  /\ j <= Len(Expand(file_paths[i]))
                  /\ Expand(file_paths[i])[j] = q})
      IN  /\ \A q \in RegularFiles : Occurrences(files, q) = Reached(q)
          /\ Len(docs) = Len(files)
          /\ \A i \in 1..Len(docs) :
               /\ docs[i][5] = files[i]
               /\ docs[i][Len(docs[i]) - 2] = docs[i][3]
          /\ \A i, j \in 1..Len(docs) : i # j => docs[i][3] # docs[j][3]

C10_Witness ==
    /\ LoadOk
    /\ file_paths = <<"d1/x.txt", "d1", "d1/x.txt">>
    /\ Occurrences(ret.value.files, "d1/x.txt") = 3
    /\ Cardinality({ret.value.files_content[i][3] : i \in 1..4}) = 4

(***************************************************************************)
(* Vocabulary of the claims about human_format.                            *)
(***************************************************************************)
FormatDone == pc = "done" /\ ret.op = "human_format"

\* n < 10^15, for a number given by its digits
Below10To15(n) == Len(n.digits) <= 15

\* The least k with v / 1000^k < 1000, for v = m * 10^e.
RECURSIVE LeastIndex(_, _)
LeastIndex(x, k) ==
    IF x.m = 0 \/ Len(DigitsOf(x.m)) + x.e - 3 * k <= 3 THEN k
    ELSE LeastIndex(x, k + 1)

\* The decimal text of m * 10^e, with no trailing zeros after a point and no
\* trailing point.
RECURSIVE PlainText(_, _)
PlainText(m, e) ==
    IF e >= 0 THEN Chars(DigitsOf(m * Pow10(e)))
    ELSE IF m % 10 = 0 THEN PlainText(m \div 10, e + 1)
    ELSE LET ds == DigitsOf(m)
             padded == [i \in 1..((1 - e) - Len(ds)) |-> 0] \o ds
         IN  Chars(SubSeq(padded, 1, Len(padded) + e)) \o <<".">>
             \o Chars(SubSeq(padded, Len(padded) + e + 1, Len(padded)))

IsNumber(n, ds) == ~n.neg /\ n.digits = ds

(***************************************************************************)
(* C8 as stated: the magnitude index of human_format is capped at 4; for   *)
(* every numeric input, magnitudes of 10^15 and above included, it returns *)
(* a string whose suffix is one of '', 'k', 'M', 'B', 'T' and never        *)
(* indexes past the end of the five-entry table.                           *)
(***************************************************************************)
C8_MagnitudeIndexCapped ==
    FormatDone =>
      /\ ret.magnitude <= 4
      /\ ret.status = "ok"
      /\ \/ ret.value[Len(ret.value)] \in {"k", "M", "B", "T"}
         \/ ret.value[Len(ret.value)] \in Range(DigitChar)

(***************************************************************************)
(* C9 as stated: for every integer 0 <= n < 10^15, human_format(n) is the  *)
(* text of v / 1000^k followed by the k-th suffix, v being n rounded to 3  *)
(* significant figures and k the least index with v / 1000^k < 1000; the   *)
(* text has no trailing zeros after a point and no trailing point.  1500   *)
(* gives '1.5k', 1000000 '1M', 999500 '1M', 999 '999' and 0 '0'.           *)
(***************************************************************************)
C9_RoundedScaledText ==
    (FormatDone /\ ~num.neg /\ Below10To15(num)) =>
      LET v == round_3g(num.digits)
          k == LeastIndex(v, 0)
      IN  /\ ret.status = "ok"
          /\ k + 1 \in DOMAIN Suffixes
          /\ ret.value = PlainText(v.m, v.e - 3 * k)
                         \o (IF k = 0 THEN <<>> ELSE <<Suffixes[k + 1]>>)
          /\ IsNumber(num, <<1, 5, 0, 0>>) => ret.value = <<"1", ".", "5", "k">>
          /\ IsNumber(num, <<1, 0, 0, 0, 0, 0, 0>>) => ret.value = <<"1", "M">>
          /\ IsNumber(num, <<9, 9, 9, 5, 0, 0>>) => ret.value = <<"1", "M">>
          /\ IsNumber(num, <<9, 9, 9>>) => ret.value = <<"9", "9", "9">>
          /\ IsNumber(num, <<0>>) => ret.value = <<"0">>

(***************************************************************************)
(* Vocabulary of the claims about chat.                                    *)
(***************************************************************************)
ChatDone == pc = "done" /\ ret.op = "chat"

\* The items of a list one after the other, "\n" before each but the first.
RECURSIVE Joined(_, _)
Joined(list, k) ==
    IF k = 0 THEN <<>>
    ELSE IF k = 1 THEN list[1]
    ELSE Joined(list, k - 1) \o <<"\n">> \o list[k]

HasContent(response) ==
    /\ "choices" \in DOMAIN response
    /\ Len(response.choices) > 0
    /\ "message" \in DOMAIN response.choices[1]
    /\ "content" \in DOMAIN response.choices[1].message

(***************************************************************************)
(* C5: the message list chat hands to completion is, with                  *)
(* supports_system_role, exactly two messages: a "system" one whose        *)
(* content is the joined custom instructions immediately followed by the   *)
(* joined curated datasets, then a "user" one holding the prompt verbatim; *)
(* without it, exactly three "user" messages: joined custom instructions,  *)
(* joined curated datasets, prompt.  The prompt is last in both, and the   *)
(* list is a function of these four arguments alone.                       *)
(***************************************************************************)
C5_MessageList ==
    ChatDone =>
      LET ci == Joined(chat_args.custom_instructions, Len(chat_args.custom_instructions))
          cd == Joined(chat_args.curated_datasets, Len(chat_args.curated_datasets))
      IN  /\ chat_args.supports_system_role =>
               /\ Len(messages) = 2
               /\ messages[1] = [role |-> "system", content |-> ci \o cd]
               /\ messages[2] = [role |-> "user", content |-> chat_args.prompt]
          /\ ~chat_args.supports_system_role =>
               /\ Len(messages) = 3
               /\ messages[1] = [role |-> "user", content |-> ci]
               /\ messages[2] = [role |-> "user", content |-> cd]
               /\ messages[3] = [role |-> "user", content |-> chat_args.prompt]
          /\ messages[Len(messages)].content = chat_args.prompt

C5_Witness ==
    /\ ChatDone
    /\ chat_args.supports_system_role
    /\ Len(chat_args.custom_instructions) = 2 /\ Len(chat_args.curated_datasets) = 2
    /\ chat_args.history # None /\ ~chat_args.stream /\ chat_args.new_session
    /\ messages[1].content = <<"be brief", "\n", "cite", "\n", "facts", "\n">>

(***************************************************************************)
(* C6 as stated: for every response completion can return, chat returns    *)
(* choices[0].message.content when that path exists and otherwise a        *)
(* missing value, never raising: with no 'choices' key, with an empty      *)
(* 'choices' list, with a first choice lacking 'message', and with a       *)
(* message lacking 'content'.                                              *)
(***************************************************************************)
C6_ContentOrMissingNeverRaises ==
    ChatDone =>
      /\ ret.status = "ok"
      /\ HasContent(llm_response) => ret.value = llm_response.choices[1].message.content
      /\ ~HasContent(llm_response) => ret.value = None
====
